---- MODULE Spec2Model ----
(***************************************************************************)
(* Model of RIP.py: the hybrid swing-up / stabilization controller of a    *)
(* rotary inverted pendulum, the odeint run that drives derivatives(), the *)
(* reconciliation of the control log with the time grid, and the hand-over *)
(* of the results to the plots.                                            *)
(*                                                                         *)
(* Reals are fixed-point integers in units of 1/Scale (1e-4): 0.05 rad is  *)
(* 500, Kp_theta = 4.091 is 40910.  A product of two fixed-point numbers   *)
(* is rescaled by Mul, a quotient by Div; cos and sin are tabulated on the *)
(* angles the model uses.                                                  *)
(***************************************************************************)
EXTENDS Integers, Sequences, FiniteSets, TLC

VARIABLES
    theta, dtheta, alpha, dalpha,  \* module-level initial condition (lines 27-31)
    L_p,                           \* pendulum length (line 13)
    stabilizing,                   \* the global mode flag (line 42)
    u_values,                      \* the control log (line 45)
    t,                             \* the time grid (line 24)
    solution,                      \* rows odeint has produced (line 83)
    pc,                            \* position of the script
    ncalls,                        \* number of derivatives() evaluations made
    arg,                           \* the state passed to the latest derivatives() call
    u,                             \* local u of the latest derivatives() call
    ds,                            \* value returned by the latest derivatives() call
    branch                         \* branch of the if at line 65 the latest call took

vars == <<theta, dtheta, alpha, dalpha, L_p, stabilizing, u_values, t, solution,
          pc, ncalls, arg, u, ds, branch>>

-----------------------------------------------------------------------------
(* Fixed-point arithmetic *)

Scale == 100 * 100

Abs(x) == IF x < 0 THEN -x ELSE x

\* a * b, rounded to the nearest unit
Mul(a, b) == (a * b + (Scale \div 2)) \div Scale

\* a / b for b # 0, rounded down
Div(a, b) == (a * Scale) \div b

\* pow(x, 2)
Sq(x) == Mul(x, x)

\* math.pi / 9
PiOver9 == 3491

\* math.cos on the angles of the model
Cos(x) ==
    CASE x = 30416  -> -9950
      [] x = 500    -> 9988
      [] x = 0      -> 10000
      [] x = 3481   -> 9400
      [] x = 3501   -> 9394
      [] x = -30000 -> -9900

\* math.sin on the angles of the model
Sin(x) ==
    CASE x = 30416  -> 998
      [] x = 500    -> 500
      [] x = 0      -> 0
      [] x = 3481   -> 3411
      [] x = 3501   -> 3430
      [] x = -30000 -> -1411

-----------------------------------------------------------------------------
(* Parameters *)

g   == 98067       \* constants.g = 9.80665
m_p == 5000
I_a == 25
I_p == 60
dt  == 500
x0  == 0
k   == 4000
Kp_theta == 40910
Kd_theta == 3500
Kp_alpha == 1250
Kd_alpha == 2810

\* number of grid samples, len(np.arange(0.0, Tmax, dt)), scaled down from 700
MaxSamples == 2
\* most derivatives() evaluations the solver makes in one run
MaxEvals == 3

\* <<theta, dtheta, alpha, dalpha>> of the shipped script: pi - 0.1, 0, 0, -0.05
DefaultState == <<30416, 0, 0, -500>>
\* the pure-stabilization scenario: 0.05, 0, 0, 0
ScenarioState == <<500, 0, 0, 0>>
\* just outside the pi/9 tolerance, moving: pi/9 + 0.001, -0.5, 0.1, 0
BoundaryState == <<3501, -5000, 1000, 0>>
\* at the reference angle, at rest, arm displaced and moving: 0, 0, 0.2, 0.1
RestState == <<0, 0, 2000, 1000>>
\* far on the negative side: -3.0, 1.0, 0, 0
NegativeState == <<-30000, 10000, 0, 0>>

\* the initial conditions a run is configured with
InitialStates == {DefaultState, ScenarioState, BoundaryState}
\* the states the solver passes to derivatives()
SolverStates == InitialStates \cup {RestState, NegativeState}
\* the pendulum lengths a run is configured with
Lengths == {3000, 0}

\* state = np.array([theta, dtheta, alpha, dalpha])
state == <<theta, dtheta, alpha, dalpha>>

\* t = np.arange(0.0, Tmax, dt)
TimeGrid == [i \in 1..MaxSamples |-> (i - 1) * dt]

-----------------------------------------------------------------------------
(* Energy metric and switching test *)

\* the body of energy() with the pendulum angle and velocity a and v:
\* 0.5*(I_a*alpha^2 + m_p*m_p^2 + I_p*v^2) + m_p*g*L_p*(cos(a) - 1)
energyExpr(a, v) ==
    Mul(Scale \div 2, Mul(I_a, Sq(alpha)) + Mul(m_p, Sq(m_p)) + Mul(I_p, Sq(v)))
        + Mul(Mul(Mul(m_p, g), L_p), Cos(a) - Scale)

\* the same expression on the arguments of the call instead of the globals
energy_ofArguments(th, dth) == energyExpr(th, dth)

\* def energy(th, dth): the body reads the globals theta, dtheta, alpha
energy(th, dth) == energyExpr(theta, dtheta)

\* the test with the comparison reversed
isControllable_reversed(th, dth) == th > PiOver9 /\ Abs(energy(th, dth)) < Scale \div 2

\* def isControllable(th, dth)
isControllable(th, dth) == th < PiOver9 /\ Abs(energy(th, dth)) < Scale \div 2

-----------------------------------------------------------------------------
(* derivatives() *)

\* the latch forgotten: the flag follows the test of the current call
nextStabilizing_noLatch(s) == isControllable(s[1], s[2])

\* lines 65-66: the condition of the if; the true branch sets stabilizing
nextStabilizing(s) == stabilizing \/ isControllable(s[1], s[2])

\* line 67
stabilizeLaw(s) ==
    Mul(Kp_theta, s[1]) + Mul(Kd_theta, s[2]) + Mul(Kp_alpha, s[3] - x0)
        + Mul(Kd_alpha, s[4])

\* lines 69-70
swingUpLaw(s) == Mul(Mul(Mul(k, energy(s[1], s[2])), s[2]), Cos(s[1]))

\* the entry overwrites the last one instead of being added
logAppend_overwrite(log, v) ==
    IF log = <<>> THEN <<v>> ELSE [log EXCEPT ![Len(log)] = v]

\* line 72: u_values.append(u)
logAppend(log, v) == Append(log, v)

\* lines 74-79: the returned derivative; a zero L_p makes ds[1] non-finite
derivative(s, v) ==
    [val    |-> <<s[2],
                  IF L_p = 0 THEN 0
                  ELSE Div(Mul(g, Sin(s[1])) - Mul(v, Cos(s[1])), L_p),
                  s[4],
                  v>>,
     finite |-> L_p # 0]

\* def derivatives(state, t)
derivatives(s) ==
    /\ arg' = s
    /\ stabilizing' = nextStabilizing(s)
    /\ branch' = IF nextStabilizing(s) THEN "stabilize" ELSE "swingup"
    /\ u' = IF nextStabilizing(s) THEN stabilizeLaw(s) ELSE swingUpLaw(s)
    /\ u_values' = logAppend(u_values, u')
    /\ ds' = derivative(s, u')

-----------------------------------------------------------------------------
(* The script *)

Init ==
    /\ \E s \in InitialStates :
          /\ theta = s[1]
          /\ dtheta = s[2]
          /\ alpha = s[3]
          /\ dalpha = s[4]
          /\ arg = s
    /\ L_p \in Lengths
    /\ stabilizing = FALSE
    /\ u_values = <<>>
    /\ t = TimeGrid
    /\ solution = <<>>
    /\ pc = "odeint"
    /\ ncalls = 0
    /\ u = 0
    /\ ds = [val |-> <<0, 0, 0, 0>>, finite |-> TRUE]
    /\ branch = "none"

\* odeint evaluates the right-hand side: first at the initial state, then at
\* states of its own choosing, any number of times
Evaluate ==
    /\ pc = "odeint"
    /\ ncalls < MaxEvals
    /\ \E s \in (IF ncalls = 0 THEN {state} ELSE SolverStates) : derivatives(s)
    /\ ncalls' = ncalls + 1
    /\ UNCHANGED <<theta, dtheta, alpha, dalpha, L_p, t, solution, pc>>

\* odeint produces the row of the next grid sample: the initial state for
\* t[0], a state of the solver's for the others; it returns after the last
Emit ==
    /\ pc = "odeint"
    /\ ncalls > 0
    /\ Len(solution) < Len(t)
    /\ \E row \in (IF solution = <<>> THEN {state} ELSE SolverStates) :
          solution' = Append(solution, row)
    /\ pc' = IF Len(solution) + 1 = Len(t) THEN "reconcile" ELSE "odeint"
    /\ UNCHANGED <<theta, dtheta, alpha, dalpha, L_p, stabilizing, u_values, t,
                   ncalls, arg, u, ds, branch>>

\* the log keeps its last len(t) entries instead of its first
trimLog_tail(log, grid) ==
    IF Len(log) > Len(grid)
    THEN SubSeq(log, Len(log) - Len(grid) + 1, Len(log)) ELSE log

\* lines 87-88
trimLog(log, grid) ==
    IF Len(log) > Len(grid) THEN SubSeq(log, 1, Len(grid)) ELSE log

\* lines 89-90
trimGrid(log, grid) ==
    IF Len(log) > Len(grid) THEN grid
    ELSE IF Len(log) < Len(grid) THEN SubSeq(grid, 1, Len(log))
    ELSE grid

\* lines 86-90: array size check for solution and u
Reconcile ==
    /\ pc = "reconcile"
    /\ u_values' = trimLog(u_values, t)
    /\ t' = trimGrid(u_values, t)
    /\ pc' = "plot"
    /\ UNCHANGED <<theta, dtheta, alpha, dalpha, L_p, stabilizing, solution,
                   ncalls, arg, u, ds, branch>>

\* lines 93-146: the columns of solution are plotted against t, the log
\* against t; pyplot raises ValueError when x and y differ in length
Plot ==
    /\ pc = "plot"
    /\ pc' = IF Len(t) = Len(solution) /\ Len(t) = Len(u_values)
             THEN "done" ELSE "ValueError"
    /\ UNCHANGED <<theta, dtheta, alpha, dalpha, L_p, stabilizing, u_values, t,
                   solution, ncalls, arg, u, ds, branch>>

Next == Evaluate \/ Emit \/ Reconcile \/ Plot

Spec == Init /\ [][Next]_vars


-----------------------------------------------------------------------------
(* Properties *)

\* C1: once a call has set stabilizing, every later step keeps it set, and
\* every later call takes the stabilize branch and computes u, the value it
\* logs, by the stabilization law on the state of that call.
LatchMonotonic ==
    [][stabilizing =>
         /\ stabilizing'
         /\ ncalls' # ncalls =>
               LET law == Mul(Kp_theta, arg'[1]) + Mul(Kd_theta, arg'[2])
                            + Mul(Kp_alpha, arg'[3] - x0) + Mul(Kd_alpha, arg'[4])
               IN  /\ branch' = "stabilize"
                   /\ u' = law
                   /\ u_values'[Len(u_values')] = law]_vars

\* C1 witness: the latch was set by an earlier call and a later call, on a
\* state that fails the switching test itself, used the stabilization law.
LatchedLaterCall ==
    /\ stabilizing
    /\ ncalls >= 2
    /\ branch = "stabilize"
    /\ arg[1] >= PiOver9
    /\ u_values[1] = 0

\* C2 as stated: in a validly configured run, a call that evaluates the
\* switching test (stabilizing is False when it starts) finds it true, and so
\* sets stabilizing, exactly when the angle it was passed is within pi/9 of
\* upright in magnitude and the energy of the state it was passed is below
\* 0.5 in magnitude.
SwitchTestIsTolerance ==
    [][(L_p > 0 /\ ~stabilizing /\ ncalls' # ncalls) =>
         (stabilizing'
             <=> /\ Abs(arg'[1]) < PiOver9
                 /\ Abs(energyExpr(arg'[1], arg'[2])) < Scale \div 2)]_vars

\* C3 as stated: in a validly configured run, a swing-up call on a state with
\* theta = 0 and dtheta = 0 gets 0 from energy(), whatever alpha and dalpha.
EnergyZeroAtRest ==
    (L_p > 0 /\ branch = "swingup" /\ arg[1] = 0 /\ arg[2] = 0) =>
        energy(arg[1], arg[2]) = 0

\* C4 as stated: in a validly configured run, a swing-up call computes u from
\* the energy of the angle and velocity it was passed.
SwingUpUsesOwnEnergy ==
    (L_p > 0 /\ branch = "swingup") =>
        u = Mul(Mul(Mul(k, energyExpr(arg[1], arg[2])), arg[2]), Cos(arg[1]))

\* C5: the reconciliation step leaves the log and the grid equally long; a
\* longer log loses only trailing entries and the grid is kept, a shorter
\* log is kept and the grid loses only trailing samples.
ReconcileEqualLengths ==
    [][pc = "reconcile" =>
         /\ Len(u_values') = Len(t')
         /\ Len(u_values) >= Len(t) =>
               /\ t' = t
               /\ u_values' = SubSeq(u_values, 1, Len(t))
         /\ Len(u_values) <= Len(t) =>
               /\ u_values' = u_values
               /\ t' = SubSeq(t, 1, Len(u_values))]_vars

\* C5 witness: the solver made more evaluations than there are samples and
\* the reconciled log is the first len(t) entries, which differ from the last.
ReconciledLongLog ==
    /\ pc = "plot"
    /\ ncalls > MaxSamples
    /\ Len(u_values) = MaxSamples
    /\ Len(t) = MaxSamples
    /\ u_values[Len(u_values)] # u

\* C6 as stated: when the results of a validly configured run reach the
\* plots the trajectory has one row per grid sample, row i for the time (i - 1) * dt.
TrajectoryAlignedWithGrid ==
    (L_p > 0 /\ pc = "plot") =>
        /\ Len(solution) = Len(t)
        /\ \A i \in 1..Len(t) : t[i] = (i - 1) * dt

\* C7: in a run configured with theta = 0.05, dtheta = alpha = dalpha = 0 the
\* first call sets stabilizing and logs Kp_theta * 0.05, and every call of
\* the run takes the stabilize branch.
ImmediateStabilization ==
    (state = ScenarioState /\ ncalls > 0) =>
        /\ stabilizing
        /\ branch = "stabilize"
        /\ u_values[1] = Mul(Kp_theta, 500)

\* C7 witness: such a run after several calls, the latest on a far state.
ScenarioRunLatched ==
    /\ state = ScenarioState
    /\ L_p > 0
    /\ ncalls = MaxEvals
    /\ arg = DefaultState
    /\ stabilizing

\* C8 as stated: with a non-positive L_p nothing is evaluated, logged or
\* produced.
InvalidLengthRejected ==
    L_p <= 0 => (ncalls = 0 /\ u_values = <<>> /\ solution = <<>>)

\* C9: during integration the log is as long as the number of evaluations
\* made, each evaluation adds one entry at the end and keeps the entries
\* before it, and no other step of the integration touches the log.
LogAppendOnly ==
    [][pc = "odeint" =>
         /\ Len(u_values) = ncalls
         /\ ncalls' # ncalls =>
               /\ ncalls' = ncalls + 1
               /\ Len(u_values') = Len(u_values) + 1
               /\ SubSeq(u_values', 1, Len(u_values)) = u_values
               /\ u_values'[Len(u_values')] = u'
         /\ ncalls' = ncalls => u_values' = u_values]_vars

\* C9 witness: the log after calls in both modes, longer than the grid.
LogOfBothModes ==
    /\ pc = "odeint"
    /\ Len(u_values) = MaxEvals
    /\ ncalls = MaxEvals
    /\ stabilizing
    /\ u_values[1] = 0
    /\ u_values[1] # u_values[2]
    /\ u_values[2] # u_values[3]

\* C10: in the shipped configuration energy() returns one value, at least
\* 0.5 in magnitude, whatever state it is called on, so the switching test
\* fails on every state, stabilizing stays False and every logged u is the
\* swing-up value with that energy.
DefaultRunNeverStabilizes ==
    (state = DefaultState /\ L_p = 3000) =>
        /\ ~stabilizing
        /\ \A s \in SolverStates :
              /\ energy(s[1], s[2]) = -28721
              /\ ~isControllable(s[1], s[2])
        /\ ncalls > 0 =>
              /\ branch = "swingup"
              /\ u = Mul(Mul(Mul(k, -28721), arg[2]), Cos(arg[1]))
        /\ \A i \in 1..Len(u_values) :
              \E s \in SolverStates :
                 u_values[i] = Mul(Mul(Mul(k, -28721), s[2]), Cos(s[1]))

\* C10 witness: the shipped run after a call on the near-upright state at
\* rest, still in swing-up mode.
DefaultRunNearUpright ==
    /\ state = DefaultState
    /\ L_p = 3000
    /\ ncalls = MaxEvals
    /\ arg = ScenarioState
    /\ branch = "swingup"

====
